---- MODULE Spec2Model ----
(***************************************************************************)
(* Polar payments POC backend: the in-memory purchase ledger               *)
(* (billing.service.ts), the product->plan resolver, and the webhook       *)
(* endpoint (billing.webhooks.ts) that authenticates a delivery and        *)
(* routes it by event type.                                                *)
(*                                                                         *)
(* The ledger functions are exported by the service module, so the model   *)
(* has one action per exported function (called by any importer) and one   *)
(* action per HTTP handler.  Node runs each handler body to completion     *)
(* once its request body has been read, so a handler is one atomic step.   *)
(***************************************************************************)
EXTENDS Naturals, Sequences, FiniteSets

VARIABLES
    env,               \* process.env as read by the backend (fixed after load)
    pc,                \* "boot" while index.ts is loading, then "serving"
    productToPlanMap,  \* billing.service.ts: Map productId -> planId
    purchaseStore,     \* billing.service.ts: Map customerId -> Purchase[]
    last,              \* the operation handled last, its input and its result
    pending,           \* checkout sessions requested from the provider, not yet answered
    tasks,             \* calls in flight on the event loop, each with its position
    running            \* the call that holds the JavaScript thread, or NoTask

vars == <<env, pc, productToPlanMap, purchaseStore, last, pending, tasks, running>>

----------------------------------------------------------------------------
(* Bounds and input domains *)

\* Total number of purchase records the ledger may hold in the model.
MaxRecords == 2

\* Number of checkout sessions the provider may be creating at one time.
MaxPending == 1

\* Calls that may be in flight on the event loop at one time.
Tasks == {"t1", "t2", "t3"}

\* No call holds the thread.
NoTask == "<none>"

\* A call slot that is free.
IdleTask ==
    [ kind |-> "idle", at |-> "idle", customerId |-> "<undefined>",
      productId |-> "<undefined>", planId |-> "<undefined>",
      alias |-> FALSE, list |-> <<>> ]

\* undefined / missing / empty string (all falsy in the source's tests)
NoVal == "<undefined>"

PlanIds == {"pro", "master"}

Customers == {"poc_user_001", "cus_2"}

\* product ids that appear in configuration and in deliveries
ProductIds == {"prod_a", "prod_b", "prod_x"}

\* order / subscription ids
OrderIds == {"o1", "o2"}

Secrets == {"whsec_live", "whsec_other"}

\* Configurations: either product id may be missing, and both may be equal.
Envs ==
    [ POLAR_PRO_PRODUCT_ID    : {NoVal, "prod_a"},
      POLAR_MASTER_PRODUCT_ID : {NoVal, "prod_a", "prod_b"},
      POLAR_WEBHOOK_SECRET    : {NoVal, "whsec_live"} ]

----------------------------------------------------------------------------
(* billing.service.ts: the product->plan resolver *)

EmptyMap == [x \in {} |-> NoVal]

\* Map.prototype.set
MapSet(m, k, v) == [x \in (DOMAIN m) \cup {k} |-> IF x = k THEN v ELSE m[x]]

\* Map.prototype.get: undefined on a miss
MapGet(m, k) == IF k \in DOMAIN m THEN m[k] ELSE NoVal

\* initProductPlanMapping that removes a product id it finds in the mapping
InitProductPlanMapping_Toggle(m, e) ==
    LET Flip(mm, k, v) == IF k = NoVal THEN mm
                          ELSE IF k \in DOMAIN mm
                          THEN [x \in DOMAIN mm \ {k} |-> mm[x]]
                          ELSE MapSet(mm, k, v)
    IN  Flip(Flip(m, e.POLAR_PRO_PRODUCT_ID, "pro"),
             e.POLAR_MASTER_PRODUCT_ID, "master")

InitProductPlanMapping(m, e) ==
    LET m1 == IF e.POLAR_PRO_PRODUCT_ID # NoVal
              THEN MapSet(m, e.POLAR_PRO_PRODUCT_ID, "pro")
              ELSE m
    IN  IF e.POLAR_MASTER_PRODUCT_ID # NoVal
        THEN MapSet(m1, e.POLAR_MASTER_PRODUCT_ID, "master")
        ELSE m1

----------------------------------------------------------------------------
(* billing.service.ts: the purchase ledger *)

\* The Purchase interface.  purchasedAt (new Date()) is written once and
\* read by no code; it is left out of the record.
Purchase(customerId, productId, planId, orderId) ==
    [ oderId     |-> orderId,
      customerId |-> customerId,
      productId  |-> productId,
      planId     |-> planId,
      status     |-> "active" ]

EmptyStore == [c \in Customers |-> <<>>]

\* existingPurchases.some(p => p.planId === planId && p.status === "active")
SomeActive(purchases, planId) ==
    \E i \in 1..Len(purchases) :
        purchases[i].planId = planId /\ purchases[i].status = "active"

\* The result of a service call: the ledger it leaves, and whether it threw.
Returned(store) == [store |-> store, threw |-> FALSE]

\* recordPurchase without the alreadyPurchased test
RecordPurchase_NoDupCheck(store, map, customerId, productId, orderId) ==
    LET planId == MapGet(map, productId)
    IN  IF planId = NoVal
        THEN Returned(store)
        ELSE Returned([store EXCEPT ![customerId] =
                 Append(store[customerId],
                        Purchase(customerId, productId, planId, orderId))])

\* recordPurchase whose alreadyPurchased test forgets the status
RecordPurchase_AnyStatus(store, map, customerId, productId, orderId) ==
    LET planId == MapGet(map, productId)
        existingPurchases == store[customerId]
    IN  IF planId = NoVal
        THEN Returned(store)
        ELSE IF \E i \in 1..Len(existingPurchases) :
                    existingPurchases[i].planId = planId
        THEN Returned(store)
        ELSE Returned([store EXCEPT ![customerId] =
                 Append(existingPurchases,
                        Purchase(customerId, productId, planId, orderId))])

\* recordPurchase that falls back to the "pro" plan for an unknown product
RecordPurchase_DefaultPlan(store, map, customerId, productId, orderId) ==
    LET planId == IF MapGet(map, productId) = NoVal THEN "pro"
                  ELSE MapGet(map, productId)
        existingPurchases == store[customerId]
    IN  IF SomeActive(existingPurchases, planId)
        THEN Returned(store)
        ELSE Returned([store EXCEPT ![customerId] =
                 Append(existingPurchases,
                        Purchase(customerId, productId, planId, orderId))])

\* recordPurchase that sets a revoked record of the plan back to active
\* instead of pushing a new one
RecordPurchase_Reactivate(store, map, customerId, productId, orderId) ==
    LET planId == MapGet(map, productId)
        existingPurchases == store[customerId]
        old == { i \in 1..Len(existingPurchases) :
                    existingPurchases[i].planId = planId }
    IN  IF planId = NoVal
        THEN Returned(store)
        ELSE IF SomeActive(existingPurchases, planId)
        THEN Returned(store)
        ELSE IF old # {}
        THEN Returned([store EXCEPT
                 ![customerId][CHOOSE i \in old : TRUE].status = "active"])
        ELSE Returned([store EXCEPT ![customerId] =
                 Append(existingPurchases,
                        Purchase(customerId, productId, planId, orderId))])

RecordPurchase(store, map, customerId, productId, orderId) ==
    LET planId == MapGet(map, productId)
        existingPurchases == store[customerId]
    IN  IF planId = NoVal
        THEN Returned(store)
        ELSE IF SomeActive(existingPurchases, planId)
        THEN Returned(store)
        ELSE Returned([store EXCEPT ![customerId] =
                 Append(existingPurchases,
                        Purchase(customerId, productId, planId, orderId))])

\* purchases.filter(active).map(planId): a sequence, in ledger order
RECURSIVE ActivePlanIds(_)
ActivePlanIds(purchases) ==
    IF purchases = <<>> THEN <<>>
    ELSE IF Head(purchases).status = "active"
         THEN <<Head(purchases).planId>> \o ActivePlanIds(Tail(purchases))
         ELSE ActivePlanIds(Tail(purchases))

GetCustomerPurchases(store, customerId) == store[customerId]

\* getPurchasedPlanIds without the status filter
GetPurchasedPlanIds_NoFilter(store, customerId) ==
    [i \in 1..Len(store[customerId]) |-> store[customerId][i].planId]

GetPurchasedPlanIds(store, customerId) == ActivePlanIds(store[customerId])

\* hasPurchasedPlan that forgets the status
HasPurchasedPlan_AnyStatus(store, customerId, planId) ==
    \E i \in 1..Len(store[customerId]) : store[customerId][i].planId = planId

HasPurchasedPlan(store, customerId, planId) ==
    SomeActive(store[customerId], planId)

\* purchases.find(...): index of the first active record of the plan, 0 if none
FindActive(purchases, planId) ==
    IF SomeActive(purchases, planId)
    THEN CHOOSE i \in 1..Len(purchases) :
            /\ purchases[i].planId = planId /\ purchases[i].status = "active"
            /\ \A j \in 1..(i-1) :
                 ~(purchases[j].planId = planId /\ purchases[j].status = "active")
    ELSE 0

\* revokePurchase that splices the record out of the array
RevokePurchase_Delete(store, customerId, planId) ==
    LET purchases == store[customerId]
        i == FindActive(purchases, planId)
    IN  IF i # 0
        THEN Returned([store EXCEPT ![customerId] =
                 SubSeq(purchases, 1, i - 1) \o
                 SubSeq(purchases, i + 1, Len(purchases))])
        ELSE Returned(store)

\* revokePurchase that revokes every active record of the customer
RevokePurchase_AllPlans(store, customerId, planId) ==
    LET purchases == store[customerId]
    IN  IF FindActive(purchases, planId) # 0
        THEN Returned([store EXCEPT ![customerId] =
                 [j \in 1..Len(purchases) |->
                     [purchases[j] EXCEPT !.status = "revoked"]]])
        ELSE Returned(store)

\* revokePurchase without the if (purchase) test: writing to undefined throws
RevokePurchase_NoGuard(store, customerId, planId) ==
    LET purchases == store[customerId]
        i == FindActive(purchases, planId)
    IN  IF i # 0
        THEN Returned([store EXCEPT ![customerId][i].status = "revoked"])
        ELSE [store |-> store, threw |-> TRUE]

RevokePurchase(store, customerId, planId) ==
    LET purchases == store[customerId]
        i == FindActive(purchases, planId)
    IN  IF i # 0
        THEN Returned([store EXCEPT ![customerId][i].status = "revoked"])
        ELSE Returned(store)

\* What an if () takes for true of an optional string: undefined and the
\* empty string are falsy.
Truthy(x) == x # NoVal /\ x # ""

\* onSubscriptionActive with || in place of &&
OnSubscriptionActive_EitherArg(store, map, customerId, productId, subscriptionId) ==
    IF Truthy(productId) \/ Truthy(subscriptionId)
    THEN RecordPurchase(store, map, customerId, productId, subscriptionId)
    ELSE Returned(store)

\* if (productId && subscriptionId) recordPurchase(...); then logging only
OnSubscriptionActive(store, map, customerId, productId, subscriptionId) ==
    IF Truthy(productId) /\ Truthy(subscriptionId)
    THEN RecordPurchase(store, map, customerId, productId, subscriptionId)
    ELSE Returned(store)

\* logging only
OnSubscriptionCanceled(store, customerId) == Returned(store)

\* logging only
OnSubscriptionRevoked(store, customerId) == Returned(store)

TotalRecords(store) ==
    LET RECURSIVE Sum(_)
        Sum(S) == IF S = {} THEN 0
                  ELSE LET c == CHOOSE x \in S : TRUE
                       IN  Len(store[c]) + Sum(S \ {c})
    IN  Sum(Customers)

----------------------------------------------------------------------------
(* billing.webhooks.ts: the webhook endpoint *)

\* Event types with a case of their own in the router's switch.
RoutedTypes ==
    { "subscription.active", "subscription.canceled", "subscription.created",
      "subscription.updated", "subscription.revoked", "checkout.created",
      "checkout.updated", "order.created", "order.paid" }

\* An event type the provider sends and the switch has no case for.
OtherTypes == {"customer.created"}

\* Types whose payload the claims read; the others get one payload each.
LedgerTypes ==
    { "subscription.active", "subscription.canceled", "subscription.revoked",
      "order.paid" }

Event(type, id, customerId, productId) ==
    [type |-> type, data |-> [id |-> id, customerId |-> customerId,
                              productId |-> productId]]

Events ==
    { Event(t, "o1", c, p) : t \in LedgerTypes, c \in Customers, p \in ProductIds }
    \cup
    { Event(t, "o1", "poc_user_001", "prod_a") :
        t \in (RoutedTypes \ LedgerTypes) \cup OtherTypes }

\* A signed body that does not parse into an event.
Garbage == Event("<unparseable>", NoVal, NoVal, NoVal)

\* Insignificant whitespace bytes of a serialised body: none as the provider
\* sends it, one more when a byte of whitespace is added.
Layouts == {0, 1}

\* await c.req.text(): the bytes of a request body, as the text they spell
\* and the whitespace between its tokens.
Raw(event, layout) ==
    [type |-> event.type, data |-> event.data, layout |-> layout]

\* JSON.parse inside validateEvent: whitespace does not reach the event.
Parse(rawBody) == [type |-> rawBody.type, data |-> rawBody.data]

\* Raw request bodies as the provider serialises them.
Bodies == { Raw(e, 0) : e \in Events \cup {Garbage} }

\* HMAC-SHA256 of the body under the secret, as an ideal MAC: two signatures
\* are equal exactly when body and secret are.
Sign(body, secret) == <<"v1", secret, body>>

\* c.req.header("webhook-signature") || "": the header is absent
NoSignature == <<"", NoVal, Raw(Garbage, 0)>>

\* The Standard Webhooks freshness window, in seconds.
WEBHOOK_TOLERANCE_IN_SECONDS == 300

\* Another body than b: what the sender signed when b was altered in transit.
Original(b) ==
    IF Parse(b) = Garbage
    THEN Raw(Event("order.created", "o1", "poc_user_001", "prod_a"), 0)
    ELSE Raw(Garbage, 0)

\* The ways a delivery can be signed: by the provider, with another secret,
\* over another body (altered in transit), or not at all.
Signatures(b) ==
    { Sign(b, s) : s \in Secrets } \cup { Sign(Original(b), "whsec_live"), NoSignature }

\* Age of the webhook-timestamp header, in seconds: fresh, or past the window.
Ages == {0, WEBHOOK_TOLERANCE_IN_SECONDS + 1}

\* Bodies of the deliveries that are not both fresh and signed by the provider.
FaultBodies ==
    { Raw(Event("subscription.active", "o1", "poc_user_001", "prod_a"), 0),
      Raw(Event("subscription.revoked", "o1", "cus_2", "prod_a"), 0),
      Raw(Event("customer.created", "o1", "poc_user_001", "prod_a"), 0),
      Raw(Garbage, 0) }

\* Bodies in transit between the provider and the endpoint.
TransitBodies ==
    { Raw(Event(t, "o1", c, "prod_a"), l) :
        t \in {"subscription.active", "subscription.revoked"},
        c \in Customers, l \in Layouts }
    \cup { Raw(Garbage, 0) }

\* Number of places where two bodies differ: the bytes of the type, of each
\* payload field, and the whitespace.
Distance(a, b) ==
    Cardinality({ f \in {"type", "id", "customerId", "productId", "layout"} :
        CASE f = "type" -> a.type # b.type
          [] f = "layout" -> a.layout # b.layout
          [] OTHER -> a.data[f] # b.data[f] })

\* b is what a body a becomes when one byte changes in transit: one place
\* differs, or the byte broke the syntax.
OneByteApart(a, b) ==
    \/ Distance(a, b) = 1
    \/ /\ a # b
       /\ a.layout = b.layout
       /\ Garbage \in {Parse(a), Parse(b)}

\* Deliveries of a body the sender signed, received as sent or with one byte
\* changed.
TransitRequests ==
    UNION { { [ body |-> b, signature |-> Sign(sent, s), age |-> a ] :
                b \in { m \in TransitBodies : m = sent \/ OneByteApart(sent, m) },
                s \in Secrets, a \in Ages } : sent \in TransitBodies }

WebhookRequests ==
    { [ body |-> b, signature |-> Sign(b, "whsec_live"), age |-> 0 ] : b \in Bodies }
    \cup
    UNION { { [ body |-> b, signature |-> sg, age |-> a ] :
                sg \in Signatures(b), a \in Ages } : b \in FaultBodies }

\* validateEvent that does not look at the timestamp
ValidateEvent_NoTimestamp(rawBody, headers, secret) ==
    IF headers.signature # Sign(rawBody, secret)
    THEN [ok |-> FALSE, error |-> "WebhookVerificationError"]
    ELSE IF Parse(rawBody) \notin Events
    THEN [ok |-> FALSE, error |-> "Error"]
    ELSE [ok |-> TRUE, event |-> Parse(rawBody)]

\* validateEvent(rawBody, webhookHeaders, webhookSecret) of the provider's
\* SDK: verifies signature and timestamp, then parses.
ValidateEvent(rawBody, headers, secret) ==
    IF headers.signature # Sign(rawBody, secret)
    THEN [ok |-> FALSE, error |-> "WebhookVerificationError"]
    ELSE IF headers.age > WEBHOOK_TOLERANCE_IN_SECONDS
    THEN [ok |-> FALSE, error |-> "WebhookVerificationError"]
    ELSE IF Parse(rawBody) \notin Events
    THEN [ok |-> FALSE, error |-> "Error"]
    ELSE [ok |-> TRUE, event |-> Parse(rawBody)]

\* the switch with a default case that throws
Route_ThrowOnUnknown(store, map, event) ==
    IF event.type \in RoutedTypes
    THEN [ handler |-> "none", res |-> Returned(store) ]
    ELSE [ handler |-> "none", res |-> [store |-> store, threw |-> TRUE] ]

\* switch (event.type): the service function called, and its result
Route(store, map, event) ==
    CASE event.type = "subscription.active" ->
           [ handler |-> "onSubscriptionActive",
             res |-> OnSubscriptionActive(store, map, event.data.customerId,
                                          NoVal, NoVal) ]
      [] event.type = "subscription.canceled" ->
           [ handler |-> "onSubscriptionCanceled",
             res |-> OnSubscriptionCanceled(store, event.data.customerId) ]
      [] event.type \in { "subscription.created", "subscription.updated",
                          "subscription.revoked", "checkout.created",
                          "checkout.updated", "order.created", "order.paid" } ->
           [ handler |-> "none", res |-> Returned(store) ]
      [] OTHER ->
           [ handler |-> "none", res |-> Returned(store) ]

Reply(status, text, validated, dispatched, handler, store) ==
    [ status |-> status, reply |-> text, validated |-> validated,
      dispatched |-> dispatched, handler |-> handler, store |-> store ]

\* the handler without the instanceof WebhookVerificationError test
HandleWebhook_NoInstanceof(store, map, e, req) ==
    LET webhookHeaders == [signature |-> req.signature, age |-> req.age]
        webhookSecret == e.POLAR_WEBHOOK_SECRET
    IN  IF webhookSecret = NoVal
        THEN Reply(500, "Server misconfigured", FALSE, FALSE, "none", store)
        ELSE LET v == ValidateEvent(req.body, webhookHeaders, webhookSecret)
             IN  IF ~v.ok
                 THEN Reply(400, "Invalid webhook", TRUE, FALSE, "none", store)
                 ELSE Reply(200, "received", TRUE, TRUE,
                            Route(store, map, v.event).handler,
                            Route(store, map, v.event).res.store)

\* the handler that only logs a missing secret and goes on to validate
HandleWebhook_WarnOnly(store, map, e, req) ==
    LET webhookHeaders == [signature |-> req.signature, age |-> req.age]
        v == ValidateEvent(req.body, webhookHeaders, e.POLAR_WEBHOOK_SECRET)
    IN  IF ~v.ok
        THEN IF v.error = "WebhookVerificationError"
             THEN Reply(401, "Invalid signature", TRUE, FALSE, "none", store)
             ELSE Reply(400, "Invalid webhook", TRUE, FALSE, "none", store)
        ELSE Reply(200, "received", TRUE, TRUE,
                   Route(store, map, v.event).handler,
                   Route(store, map, v.event).res.store)

\* the handler that answers every validateEvent failure with 401
HandleWebhook_All401(store, map, e, req) ==
    LET webhookHeaders == [signature |-> req.signature, age |-> req.age]
        webhookSecret == e.POLAR_WEBHOOK_SECRET
    IN  IF webhookSecret = NoVal
        THEN Reply(500, "Server misconfigured", FALSE, FALSE, "none", store)
        ELSE LET v == ValidateEvent(req.body, webhookHeaders, webhookSecret)
             IN  IF ~v.ok
                 THEN Reply(401, "Invalid signature", TRUE, FALSE, "none", store)
                 ELSE Reply(200, "received", TRUE, TRUE,
                            Route(store, map, v.event).handler,
                            Route(store, map, v.event).res.store)

\* the handler that answers an activation for an unknown product with 400
HandleWebhook_RejectUnknownProduct(store, map, e, req) ==
    LET webhookHeaders == [signature |-> req.signature, age |-> req.age]
        webhookSecret == e.POLAR_WEBHOOK_SECRET
    IN  IF webhookSecret = NoVal
        THEN Reply(500, "Server misconfigured", FALSE, FALSE, "none", store)
        ELSE LET v == ValidateEvent(req.body, webhookHeaders, webhookSecret)
             IN  IF ~v.ok
                 THEN IF v.error = "WebhookVerificationError"
                      THEN Reply(401, "Invalid signature", TRUE, FALSE, "none", store)
                      ELSE Reply(400, "Invalid webhook", TRUE, FALSE, "none", store)
                 ELSE IF /\ v.event.type = "subscription.active"
                         /\ MapGet(map, v.event.data.productId) = NoVal
                 THEN Reply(400, "Unknown product", TRUE, TRUE, "none", store)
                 ELSE Reply(200, "received", TRUE, TRUE,
                            Route(store, map, v.event).handler,
                            Route(store, map, v.event).res.store)

\* the handler that verifies JSON.stringify(await c.req.json()) instead of
\* the text received
HandleWebhook_Reserialize(store, map, e, req) ==
    LET rawBody == Raw(Parse(req.body), 0)
        webhookHeaders == [signature |-> req.signature, age |-> req.age]
        webhookSecret == e.POLAR_WEBHOOK_SECRET
    IN  IF webhookSecret = NoVal
        THEN Reply(500, "Server misconfigured", FALSE, FALSE, "none", store)
        ELSE LET v == ValidateEvent(rawBody, webhookHeaders, webhookSecret)
             IN  IF ~v.ok
                 THEN IF v.error = "WebhookVerificationError"
                      THEN Reply(401, "Invalid signature", TRUE, FALSE, "none", store)
                      ELSE Reply(400, "Invalid webhook", TRUE, FALSE, "none", store)
                 ELSE Reply(200, "received", TRUE, TRUE,
                            Route(store, map, v.event).handler,
                            Route(store, map, v.event).res.store)

\* the handler that records the purchase an activation body names before
\* it validates the delivery
HandleWebhook_RecordUnverified(store, map, e, req) ==
    LET webhookHeaders == [signature |-> req.signature, age |-> req.age]
        webhookSecret == e.POLAR_WEBHOOK_SECRET
        event == Parse(req.body)
        recorded == IF event.type = "subscription.active"
                    THEN RecordPurchase(store, map, event.data.customerId,
                                        event.data.productId, event.data.id).store
                    ELSE store
    IN  IF webhookSecret = NoVal
        THEN Reply(500, "Server misconfigured", FALSE, FALSE, "none", store)
        ELSE LET v == ValidateEvent(req.body, webhookHeaders, webhookSecret)
             IN  IF ~v.ok
                 THEN IF v.error = "WebhookVerificationError"
                      THEN Reply(401, "Invalid signature", TRUE, FALSE, "none", recorded)
                      ELSE Reply(400, "Invalid webhook", TRUE, FALSE, "none", recorded)
                 ELSE Reply(200, "received", TRUE, TRUE,
                            Route(recorded, map, v.event).handler,
                            Route(recorded, map, v.event).res.store)

\* billingWebhooks.post("/api/webhooks/polar", ...)
HandleWebhook(store, map, e, req) ==
    LET rawBody == req.body
        webhookHeaders == [signature |-> req.signature, age |-> req.age]
        webhookSecret == e.POLAR_WEBHOOK_SECRET
    IN  IF webhookSecret = NoVal
        THEN Reply(500, "Server misconfigured", FALSE, FALSE, "none", store)
        ELSE LET v == ValidateEvent(rawBody, webhookHeaders, webhookSecret)
             IN  IF ~v.ok
                 THEN IF v.error = "WebhookVerificationError"
                      THEN Reply(401, "Invalid signature", TRUE, FALSE, "none", store)
                      ELSE Reply(400, "Invalid webhook", TRUE, FALSE, "none", store)
                 ELSE LET r == Route(store, map, v.event)
                      IN  IF r.res.threw
                          THEN Reply(500, "Internal Server Error", TRUE, TRUE,
                                     r.handler, r.res.store)
                          ELSE Reply(200, "received", TRUE, TRUE,
                                     r.handler, r.res.store)

----------------------------------------------------------------------------
(* billing.plan.ts, billing.rpc.ts: the checkout request; index.ts: queries *)

\* Plan identifiers a checkout request may carry: the two plans, an unknown
\* one, and none at all.
RequestedPlans == PlanIds \cup {"enterprise", NoVal}

IsValidPlan(plan) == plan = "pro" \/ plan = "master"

\* const customerId = "poc_user_001"
CheckoutCustomer == "poc_user_001"

\* getProductId: the configured product id of the plan; NoVal makes it throw
GetProductId(e, planId) ==
    IF planId = "pro" THEN e.POLAR_PRO_PRODUCT_ID ELSE e.POLAR_MASTER_PRODUCT_ID

InvalidPlanError == "Invalid plan selected"

AlreadyPurchasedError == "You have already purchased this plan"

\* What createCheckout has done when it returns or reaches its await.
CheckoutOutcome(responded, status, reply, ledgerRead, providerCalled, productId) ==
    [ responded |-> responded, status |-> status, reply |-> reply,
      ledgerRead |-> ledgerRead, providerCalled |-> providerCalled,
      productId |-> productId ]

\* createCheckout that asks the provider first and tests the ledger after
CreateCheckout_CallFirst(store, e, planId) ==
    IF ~IsValidPlan(planId)
    THEN CheckoutOutcome(TRUE, 400, InvalidPlanError, FALSE, FALSE, NoVal)
    ELSE IF GetProductId(e, planId) = NoVal
    THEN CheckoutOutcome(TRUE, 500, "Internal Server Error", FALSE, FALSE, NoVal)
    ELSE CheckoutOutcome(FALSE, 0, "", FALSE, TRUE, GetProductId(e, planId))

\* createCheckout that tests the ledger before it validates the plan
CreateCheckout_LedgerFirst(store, e, planId) ==
    IF planId \in PlanIds /\ HasPurchasedPlan(store, CheckoutCustomer, planId)
    THEN CheckoutOutcome(TRUE, 400, AlreadyPurchasedError, TRUE, FALSE, NoVal)
    ELSE IF ~IsValidPlan(planId)
    THEN CheckoutOutcome(TRUE, 400, InvalidPlanError, TRUE, FALSE, NoVal)
    ELSE IF GetProductId(e, planId) = NoVal
    THEN CheckoutOutcome(TRUE, 500, "Internal Server Error", TRUE, FALSE, NoVal)
    ELSE CheckoutOutcome(FALSE, 0, "", TRUE, TRUE, GetProductId(e, planId))

\* billingRpc.createCheckout, from the parsed body to the first of: a
\* response, or the await on polar.checkouts.create
CreateCheckout(store, e, planId) ==
    IF ~IsValidPlan(planId)
    THEN CheckoutOutcome(TRUE, 400, InvalidPlanError, FALSE, FALSE, NoVal)
    ELSE IF HasPurchasedPlan(store, CheckoutCustomer, planId)
    THEN CheckoutOutcome(TRUE, 400, AlreadyPurchasedError, TRUE, FALSE, NoVal)
    ELSE IF GetProductId(e, planId) = NoVal
    THEN CheckoutOutcome(TRUE, 500, "Internal Server Error", TRUE, FALSE, NoVal)
    ELSE CheckoutOutcome(FALSE, 0, "", TRUE, TRUE, GetProductId(e, planId))

\* app.get("/purchases/:customerId"): the JSON it returns
PurchasesReply(store, customerId) ==
    [ customerId |-> customerId,
      purchasedPlans |-> GetPurchasedPlanIds(store, customerId) ]

----------------------------------------------------------------------------
(* The state machine *)

\* What `last` holds for a call of a service function.
Called(op, req, res) ==
    [ op |-> op, req |-> req, status |-> 0, reply |-> "", validated |-> FALSE,
      dispatched |-> FALSE, handler |-> "none", threw |-> res.threw ]

Init ==
    /\ env \in Envs
    /\ pc = "boot"
    /\ productToPlanMap = EmptyMap
    /\ purchaseStore = EmptyStore
    /\ last = Called("load", NoVal, Returned(EmptyStore))
    /\ pending = <<>>
    /\ tasks = [t \in Tasks |-> IdleTask]
    /\ running = NoTask

\* index.ts that calls serve() and never initProductPlanMapping()
Startup_ServeOnly ==
    /\ pc = "boot"
    /\ pc' = "serving"
    /\ last' = Called("startup", NoVal, Returned(purchaseStore))
    /\ UNCHANGED <<env, productToPlanMap, purchaseStore, pending, tasks, running>>

\* index.ts: initProductPlanMapping() at module load, then serve()
Startup ==
    /\ pc = "boot"
    /\ pc' = "serving"
    /\ productToPlanMap' = InitProductPlanMapping(productToPlanMap, env)
    /\ last' = Called("startup", NoVal, Returned(purchaseStore))
    /\ UNCHANGED <<env, purchaseStore, pending, tasks, running>>

\* initProductPlanMapping() called again
Reinitialize ==
    /\ pc = "serving"
    /\ productToPlanMap' = InitProductPlanMapping(productToPlanMap, env)
    /\ last' = Called("initProductPlanMapping", NoVal, Returned(purchaseStore))
    /\ UNCHANGED <<env, pc, purchaseStore, pending, tasks, running>>

CallRecordPurchase(C, P, O) ==
    \E c \in C, p \in P, o \in O :
        LET res == RecordPurchase(purchaseStore, productToPlanMap, c, p, o)
        IN  /\ pc = "serving"
            /\ TotalRecords(res.store) <= MaxRecords
            /\ purchaseStore' = res.store
            /\ last' = Called("recordPurchase",
                   [customerId |-> c, productId |-> p, orderId |-> o], res)
            /\ UNCHANGED <<env, pc, productToPlanMap, pending, tasks, running>>

CallRevokePurchase ==
    \E c \in Customers, pl \in PlanIds :
        LET res == RevokePurchase(purchaseStore, c, pl)
        IN  /\ pc = "serving"
            /\ purchaseStore' = res.store
            /\ last' = Called("revokePurchase",
                   [customerId |-> c, planId |-> pl], res)
            /\ UNCHANGED <<env, pc, productToPlanMap, pending, tasks, running>>

CallOnSubscriptionActive ==
    \E c \in Customers, p \in {"prod_a", NoVal, ""}, o \in {"o1", NoVal, ""} :
        LET res == OnSubscriptionActive(purchaseStore, productToPlanMap, c, p, o)
        IN  /\ pc = "serving"
            /\ TotalRecords(res.store) <= MaxRecords
            /\ purchaseStore' = res.store
            /\ last' = Called("onSubscriptionActive",
                   [customerId |-> c, productId |-> p, subscriptionId |-> o], res)
            /\ UNCHANGED <<env, pc, productToPlanMap, pending, tasks, running>>

\* One POST /api/webhooks/polar, from the request to the response.
Deliver(req) ==
    LET r == HandleWebhook(purchaseStore, productToPlanMap, env, req)
    IN  /\ pc = "serving"
        /\ TotalRecords(r.store) <= MaxRecords
        /\ purchaseStore' = r.store
        /\ last' = [ op |-> "webhook", req |-> req, status |-> r.status,
                     reply |-> r.reply, validated |-> r.validated,
                     dispatched |-> r.dispatched, handler |-> r.handler,
                     threw |-> FALSE ]
        /\ UNCHANGED <<env, pc, productToPlanMap, pending, tasks, running>>

WebhookPost == \E req \in WebhookRequests : Deliver(req)

\* A delivery that may have been altered between the provider and the
\* endpoint.
TransitPost == \E req \in TransitRequests : Deliver(req)

\* What `last` holds for a step of a checkout request.
Checkout(step, planId, o) ==
    [ op |-> "checkout", step |-> step, req |-> [planId |-> planId],
      responded |-> o.responded, status |-> o.status, reply |-> o.reply,
      ledgerRead |-> o.ledgerRead, providerCalled |-> o.providerCalled,
      threw |-> FALSE ]

\* POST /checkout up to its response or to the provider call
CheckoutBegin ==
    \E planId \in RequestedPlans :
        LET o == CreateCheckout(purchaseStore, env, planId)
        IN  /\ pc = "serving"
            /\ o.providerCalled => Len(pending) < MaxPending
            /\ pending' = IF o.providerCalled
                          THEN Append(pending, [planId |-> planId,
                                                products |-> <<o.productId>>,
                                                externalCustomerId |-> CheckoutCustomer])
                          ELSE pending
            /\ last' = Checkout("begin", planId, o)
            /\ UNCHANGED <<env, pc, productToPlanMap, purchaseStore, tasks, running>>

\* polar.checkouts.create settles: the session's url is returned, or the
\* call rejects and the framework answers 500
CheckoutComplete ==
    \E i \in 1..Len(pending), created \in BOOLEAN :
        /\ pc = "serving"
        /\ pending' = [j \in 1..(Len(pending) - 1) |->
                          IF j < i THEN pending[j] ELSE pending[j + 1]]
        /\ last' = Checkout("complete", pending[i].planId,
                     IF created
                     THEN CheckoutOutcome(TRUE, 200, "url", TRUE, TRUE,
                                          pending[i].products[1])
                     ELSE CheckoutOutcome(TRUE, 500, "Internal Server Error", TRUE,
                                          TRUE, pending[i].products[1]))
        /\ UNCHANGED <<env, pc, productToPlanMap, purchaseStore, tasks, running>>

\* GET /purchases/:customerId
PurchasesQuery ==
    \E c \in Customers :
        /\ pc = "serving"
        /\ last' = [ op |-> "purchases", req |-> [customerId |-> c],
                     status |-> 200, reply |-> PurchasesReply(purchaseStore, c),
                     threw |-> FALSE ]
        /\ UNCHANGED <<env, pc, productToPlanMap, purchaseStore, pending, tasks, running>>

\* app.get("/"): what the health check answers.  POLAR_ACCESS_TOKEN is not
\* part of the configuration the model carries.
HealthReply(e) ==
    [ status |-> "ok",
      env_check |->
        [ has_webhook_secret |-> e.POLAR_WEBHOOK_SECRET # NoVal,
          has_pro_product    |-> e.POLAR_PRO_PRODUCT_ID # NoVal,
          has_master_product |-> e.POLAR_MASTER_PRODUCT_ID # NoVal ] ]

\* GET /
HealthCheck ==
    /\ pc = "serving"
    /\ last' = [ op |-> "health", req |-> NoVal, status |-> 200,
                 reply |-> HealthReply(env), threw |-> FALSE ]
    /\ UNCHANGED <<env, pc, productToPlanMap, purchaseStore, pending, tasks, running>>

\* The deliveries of the bodies that are also delivered with faults.
SampleRequests == { r \in WebhookRequests : r.body \in FaultBodies }

SamplePost == \E req \in SampleRequests : Deliver(req)

\* The service module as its importers may call it.
Next ==
    \/ Startup
    \/ Reinitialize
    \/ CallRecordPurchase(Customers, ProductIds, OrderIds)
    \/ CallRevokePurchase
    \/ CallOnSubscriptionActive

Spec == Init /\ [][Next]_vars

\* The HTTP server: webhook deliveries arrive against whatever ledger the
\* service calls have left.
ServerNext ==
    \/ Startup
    \/ CallRecordPurchase(Customers, {"prod_a", "prod_b"}, {"o1"})
    \/ CallRevokePurchase
    \/ WebhookPost

ServerSpec == Init /\ [][ServerNext]_vars

----------------------------------------------------------------------------
(* Requests in flight on the event loop: recordPurchase and               *)
(* getPurchasedPlanIds statement by statement                              *)

\* A request in flight: the call it makes, the statement it executes next,
\* its arguments and its locals. `alias` says that the local array is the
\* one the ledger holds for the customer (purchaseStore.get found the key)
\* and not a fresh [].
Task(kind, at, customerId, productId, planId, alias, list) ==
    [ kind |-> kind, at |-> at, customerId |-> customerId,
      productId |-> productId, planId |-> planId, alias |-> alias,
      list |-> list ]

\* recordPurchase with an await between the test and the push
Yields_BeforePush(at) == at = "push"

\* Whether the function gives up the thread before the statement `at`:
\* recordPurchase and getPurchasedPlanIds are not async and await nothing.
Yields(at) == FALSE

\* The request waits for the event loop and not for its own next statement.
Suspended(at) == at = "arrived" \/ Yields(at)

\* The event loop can run the next statement of t: t has the thread, or
\* nobody has it and t waits for it.
CanRun(t) ==
    /\ pc = "serving"
    /\ tasks[t].kind # "idle"
    /\ \/ running = t
       \/ running = NoTask /\ Suspended(tasks[t].at)

\* Who has the thread once t stands before the statement `at`.
Holder(t, at) == IF at = "idle" \/ Yields(at) THEN NoTask ELSE t

\* The array the local of a task refers to.
LocalList(store, task) ==
    IF task.alias THEN store[task.customerId] ELSE task.list

\* What `last` holds for a statement of a request in flight.
Stmt(t, task, stmt, result) ==
    [ op |-> "stmt", task |-> t, kind |-> task.kind, stmt |-> stmt,
      customerId |-> task.customerId, productId |-> task.productId,
      planId |-> task.planId, result |-> result, threw |-> FALSE ]

\* t moves to the statement `at` with the locals of `task`.
Goto(t, task, at) ==
    /\ tasks' = [tasks EXCEPT ![t] = IF at = "idle" THEN IdleTask
                                     ELSE [task EXCEPT !.at = at]]
    /\ running' = Holder(t, at)

\* A request reaches the server while others are in flight; its handler is
\* queued on the event loop.
Arrive(C, P) ==
    \E t \in Tasks, kind \in {"record", "read"}, c \in C, p \in P :
        LET task == Task(kind, "arrived", c,
                         IF kind = "record" THEN p ELSE NoVal, NoVal, FALSE, <<>>)
        IN  /\ pc = "serving"
            /\ running = NoTask
            /\ tasks[t] = IdleTask
            /\ tasks' = [tasks EXCEPT ![t] = task]
            /\ last' = Stmt(t, task, "arrive", <<>>)
            /\ UNCHANGED <<env, pc, productToPlanMap, purchaseStore, pending,
                           running>>

\* The event loop starts the handler of a queued request: the call begins.
Enter ==
    \E t \in Tasks :
        /\ CanRun(t)
        /\ tasks[t].at = "arrived"
        /\ Goto(t, tasks[t], IF tasks[t].kind = "record" THEN "getPlan" ELSE "readGet")
        /\ last' = Stmt(t, tasks[t], "enter", <<>>)
        /\ UNCHANGED <<env, pc, productToPlanMap, purchaseStore, pending>>

\* const planId = productToPlanMap.get(productId); if (!planId) return
GetPlan ==
    \E t \in Tasks :
        LET planId == MapGet(productToPlanMap, tasks[t].productId)
            task == [tasks[t] EXCEPT !.planId = planId]
        IN  /\ CanRun(t)
            /\ tasks[t].at = "getPlan"
            /\ Goto(t, task, IF planId = NoVal THEN "idle" ELSE "getList")
            /\ last' = Stmt(t, task, "getPlan", <<>>)
            /\ UNCHANGED <<env, pc, productToPlanMap, purchaseStore, pending>>

\* const existingPurchases = purchaseStore.get(customerId) || []
GetList ==
    \E t \in Tasks :
        LET task == [tasks[t] EXCEPT
                        !.alias = purchaseStore[tasks[t].customerId] # <<>>]
        IN  /\ CanRun(t)
            /\ tasks[t].at = "getList"
            /\ Goto(t, task, "some")
            /\ last' = Stmt(t, task, "getList", <<>>)
            /\ UNCHANGED <<env, pc, productToPlanMap, purchaseStore, pending>>

\* const alreadyPurchased = existingPurchases.some(...);
\* if (alreadyPurchased) return
CheckSome ==
    \E t \in Tasks :
        LET alreadyPurchased ==
                SomeActive(LocalList(purchaseStore, tasks[t]), tasks[t].planId)
        IN  /\ CanRun(t)
            /\ tasks[t].at = "some"
            /\ Goto(t, tasks[t], IF alreadyPurchased THEN "idle" ELSE "push")
            /\ last' = Stmt(t, tasks[t], "some",
                            IF alreadyPurchased THEN <<"already">> ELSE <<>>)
            /\ UNCHANGED <<env, pc, productToPlanMap, purchaseStore, pending>>

\* existingPurchases.push(purchase)
Push ==
    \E t \in Tasks :
        LET task == tasks[t]
            purchase == Purchase(task.customerId, task.productId, task.planId, "o1")
        IN  /\ CanRun(t)
            /\ task.at = "push"
            /\ TotalRecords(purchaseStore) < MaxRecords
            /\ IF task.alias
               THEN /\ purchaseStore' =
                         [purchaseStore EXCEPT ![task.customerId] =
                             Append(purchaseStore[task.customerId], purchase)]
                    /\ Goto(t, task, "set")
               ELSE /\ purchaseStore' = purchaseStore
                    /\ Goto(t, [task EXCEPT !.list = Append(task.list, purchase)],
                            "set")
            /\ last' = Stmt(t, task, "push", <<>>)
            /\ UNCHANGED <<env, pc, productToPlanMap, pending>>

\* purchaseStore.set(customerId, existingPurchases)
SetList ==
    \E t \in Tasks :
        LET task == tasks[t]
        IN  /\ CanRun(t)
            /\ task.at = "set"
            /\ purchaseStore' =
                 [purchaseStore EXCEPT ![task.customerId] =
                     LocalList(purchaseStore, task)]
            /\ Goto(t, task, "idle")
            /\ last' = Stmt(t, task, "set", <<"recorded">>)
            /\ UNCHANGED <<env, pc, productToPlanMap, pending>>

\* getPurchasedPlanIds: const purchases = purchaseStore.get(customerId) || []
ReadGet ==
    \E t \in Tasks :
        LET task == [tasks[t] EXCEPT
                        !.alias = purchaseStore[tasks[t].customerId] # <<>>]
        IN  /\ CanRun(t)
            /\ tasks[t].at = "readGet"
            /\ Goto(t, task, "readFilter")
            /\ last' = Stmt(t, task, "readGet", <<>>)
            /\ UNCHANGED <<env, pc, productToPlanMap, purchaseStore, pending>>

\* getPurchasedPlanIds: return purchases.filter(...).map(...)
ReadFilter ==
    \E t \in Tasks :
        /\ CanRun(t)
        /\ tasks[t].at = "readFilter"
        /\ Goto(t, tasks[t], "idle")
        /\ last' = Stmt(t, tasks[t], "readFilter",
                        ActivePlanIds(LocalList(purchaseStore, tasks[t])))
        /\ UNCHANGED <<env, pc, productToPlanMap, purchaseStore, pending>>

\* Requests for one customer arriving while others are in flight.
ConcNext ==
    \/ Startup
    \/ Arrive({CheckoutCustomer}, {"prod_a", "prod_b"})
    \/ Enter
    \/ GetPlan
    \/ GetList
    \/ CheckSome
    \/ Push
    \/ SetList
    \/ ReadGet
    \/ ReadFilter

ConcSpec == Init /\ [][ConcNext]_vars

\* Every route of the server, and the service calls of one customer.
AppNext ==
    \/ Startup
    \/ Reinitialize
    \/ CallRecordPurchase({CheckoutCustomer}, {"prod_a"}, {"o1"})
    \/ CallRevokePurchase
    \/ SamplePost
    \/ CheckoutBegin
    \/ CheckoutComplete
    \/ PurchasesQuery
    \/ HealthCheck

AppSpec == Init /\ [][AppNext]_vars

\* The webhook endpoint behind a channel that can change a byte.
AuthNext ==
    \/ Startup
    \/ TransitPost

AuthSpec == Init /\ [][AuthNext]_vars

\* The routes the frontend calls, against whatever ledger the service calls
\* have left.
FrontendNext ==
    \/ Startup
    \/ CallRecordPurchase(Customers, {"prod_a", "prod_b"}, {"o1"})
    \/ CallRevokePurchase
    \/ CheckoutBegin
    \/ CheckoutComplete
    \/ PurchasesQuery

FrontendSpec == Init /\ [][FrontendNext]_vars

----------------------------------------------------------------------------
(* Properties *)

\* Number of active records of a plan in a customer's list.
ActiveCount(store, c, pl) ==
    Cardinality({ i \in 1..Len(store[c]) :
                    store[c][i].planId = pl /\ store[c][i].status = "active" })

\* Whether a customer's list holds a record of the plan with the status.
HasRecord(store, c, pl, st) ==
    \E i \in 1..Len(store[c]) :
        store[c][i].planId = pl /\ store[c][i].status = st

\* The plan the resolver gives for a product id, NoVal when unknown.
PlanOf(productId) == MapGet(productToPlanMap, productId)

\* `last` is a delivery to the webhook endpoint.
IsWebhook(l) == l.op = "webhook"

\* The delivery passes validateEvent under the configured secret.
Authentic(req) ==
    /\ env.POLAR_WEBHOOK_SECRET # NoVal
    /\ req.signature = Sign(req.body, env.POLAR_WEBHOOK_SECRET)
    /\ req.age <= WEBHOOK_TOLERANCE_IN_SECONDS
    /\ Parse(req.body) \in Events

\* C1: in every reachable state of the ledger each (customerId, planId)
\* pair has at most one purchase record with status active.
C1_AtMostOneActive ==
    \A c \in Customers, pl \in PlanIds : ActiveCount(purchaseStore, c, pl) <= 1

\* A recordPurchase call met an active record of the plan under another order
\* id and left it the only one, next to a record of the customer's other plan.
C1_Witness ==
    /\ last.op = "recordPurchase"
    /\ PlanOf(last.req.productId) # NoVal
    /\ \E i \in 1..Len(purchaseStore[last.req.customerId]) :
         LET r == purchaseStore[last.req.customerId][i]
         IN  /\ r.planId = PlanOf(last.req.productId)
             /\ r.status = "active"
             /\ r.oderId # last.req.orderId
    /\ Len(purchaseStore[last.req.customerId]) = MaxRecords

\* C2: once the endpoint has accepted an authentic subscription.active event
\* for customer c whose product maps to plan p, hasPurchasedPlan(c, p) is
\* true and (c, p) has exactly one active record.
C2_ActivationGrantsAccess ==
    ( /\ IsWebhook(last)
      /\ last.status = 200
      /\ last.req.body.type = "subscription.active"
      /\ PlanOf(last.req.body.data.productId) # NoVal )
    => LET c == last.req.body.data.customerId
           p == PlanOf(last.req.body.data.productId)
       IN  /\ HasPurchasedPlan(purchaseStore, c, p)
           /\ ActiveCount(purchaseStore, c, p) = 1

\* C3: a recordPurchase call that directly follows a recordPurchase call for
\* the same customer and a product of the same plan (same or different order
\* id) leaves the ledger as the first call left it, with exactly one active
\* record of the plan.
C3_RecordIdempotent ==
    [][ ( /\ last.op = "recordPurchase"
          /\ last'.op = "recordPurchase"
          /\ last'.req.customerId = last.req.customerId
          /\ PlanOf(last.req.productId) # NoVal
          /\ PlanOf(last'.req.productId) = PlanOf(last.req.productId) )
        => /\ purchaseStore' = purchaseStore
           /\ ActiveCount(purchaseStore', last'.req.customerId,
                          PlanOf(last'.req.productId)) = 1 ]_vars

\* The second of two recordPurchase calls carried another order id than the
\* active record it met.
C3_Witness ==
    /\ last.op = "recordPurchase"
    /\ PlanOf(last.req.productId) # NoVal
    /\ ActiveCount(purchaseStore, last.req.customerId,
                   PlanOf(last.req.productId)) = 1
    /\ \E i \in 1..Len(purchaseStore[last.req.customerId]) :
         LET r == purchaseStore[last.req.customerId][i]
         IN  /\ r.planId = PlanOf(last.req.productId)
             /\ r.status = "active"
             /\ r.oderId # last.req.orderId

\* The delivery's signature is not the one the configured secret gives for
\* the body received.
BadSignature(req) ==
    /\ env.POLAR_WEBHOOK_SECRET # NoVal
    /\ req.signature # Sign(req.body, env.POLAR_WEBHOOK_SECRET)

\* C4: a delivery whose signature does not verify against the configured
\* secret (tampered body, wrong or missing signature) is answered 401, is
\* not dispatched to any handler, and leaves ledger and resolver unchanged.
C4_BadSignatureRejected ==
    [][ ( IsWebhook(last') /\ BadSignature(last'.req) )
        => /\ last'.status = 401
           /\ ~last'.dispatched
           /\ last'.handler = "none"
           /\ purchaseStore' = purchaseStore
           /\ productToPlanMap' = productToPlanMap ]_vars

\* A tampered activation was rejected while the ledger held records.
C4_Witness ==
    /\ IsWebhook(last)
    /\ BadSignature(last.req)
    /\ last.req.signature = Sign(Original(last.req.body), env.POLAR_WEBHOOK_SECRET)
    /\ last.req.body.type = "subscription.active"
    /\ last.status = 401
    /\ TotalRecords(purchaseStore) > 0

\* C5: while POLAR_WEBHOOK_SECRET is not configured every delivery is
\* answered 500, validateEvent is not called, nothing is dispatched and the
\* ledger is unchanged, whatever body and headers it carries.
C5_FailClosedWithoutSecret ==
    [][ ( IsWebhook(last') /\ env.POLAR_WEBHOOK_SECRET = NoVal )
        => /\ last'.status = 500
           /\ ~last'.validated
           /\ ~last'.dispatched
           /\ last'.handler = "none"
           /\ purchaseStore' = purchaseStore ]_vars

\* A fresh delivery signed by the provider was refused for want of a secret,
\* while the ledger held records.
C5_Witness ==
    /\ IsWebhook(last)
    /\ env.POLAR_WEBHOOK_SECRET = NoVal
    /\ last.req.signature = Sign(last.req.body, "whsec_live")
    /\ last.req.age = 0
    /\ Parse(last.req.body) \in Events
    /\ last.status = 500
    /\ TotalRecords(purchaseStore) > 0

\* C6: when the endpoint accepts an authentic subscription.revoked event for
\* a customer holding an active record of the plan, that record is revoked
\* and hasPurchasedPlan is false once the event is acknowledged.
C6_RevocationRemovesAccess ==
    [][ ( /\ IsWebhook(last')
          /\ last'.status = 200
          /\ last'.req.body.type = "subscription.revoked"
          /\ PlanOf(last'.req.body.data.productId) # NoVal
          /\ HasPurchasedPlan(purchaseStore, last'.req.body.data.customerId,
                              PlanOf(last'.req.body.data.productId)) )
        => LET c == last'.req.body.data.customerId
               p == PlanOf(last'.req.body.data.productId)
               i == FindActive(purchaseStore[c], p)
           IN  /\ purchaseStore'[c][i].status = "revoked"
               /\ ~HasPurchasedPlan(purchaseStore', c, p) ]_vars

\* C7: when the endpoint accepts an authentic subscription.canceled event
\* for a customer holding an active record of the plan, that record has
\* status canceled afterwards.
C7_CancellationMarksRecord ==
    [][ ( /\ IsWebhook(last')
          /\ last'.status = 200
          /\ last'.req.body.type = "subscription.canceled"
          /\ PlanOf(last'.req.body.data.productId) # NoVal
          /\ HasPurchasedPlan(purchaseStore, last'.req.body.data.customerId,
                              PlanOf(last'.req.body.data.productId)) )
        => LET c == last'.req.body.data.customerId
               p == PlanOf(last'.req.body.data.productId)
               i == FindActive(purchaseStore[c], p)
           IN  purchaseStore'[c][i].status = "canceled" ]_vars

\* C8: a revokePurchase call that follows a recordPurchase call for the same
\* (customer, plan) leaves hasPurchasedPlan false; a recordPurchase call that
\* follows a revokePurchase call for the same pair, with a revoked record of
\* the plan in the list, appends a new active record at the end, keeps every
\* earlier record as it was, and makes hasPurchasedPlan true again.
C8_RevokeThenRecordAgain ==
    [][ /\ ( /\ last.op = "recordPurchase"
             /\ last'.op = "revokePurchase"
             /\ last'.req.customerId = last.req.customerId
             /\ last'.req.planId = PlanOf(last.req.productId) )
           => ~HasPurchasedPlan(purchaseStore', last'.req.customerId,
                                last'.req.planId)
        /\ ( /\ last.op = "revokePurchase"
             /\ last'.op = "recordPurchase"
             /\ last'.req.customerId = last.req.customerId
             /\ PlanOf(last'.req.productId) = last.req.planId
             /\ HasRecord(purchaseStore, last.req.customerId,
                          last.req.planId, "revoked") )
           => LET c == last'.req.customerId
                  p == last.req.planId
              IN  /\ ~HasPurchasedPlan(purchaseStore, c, p)
                  /\ purchaseStore' = [purchaseStore EXCEPT ![c] =
                       Append(purchaseStore[c],
                              Purchase(c, last'.req.productId, p,
                                       last'.req.orderId))]
                  /\ HasRecord(purchaseStore', c, p, "revoked")
                  /\ HasPurchasedPlan(purchaseStore', c, p) ]_vars

\* A recordPurchase call left a new active record after the revoked record
\* of the same plan.
C8_Witness ==
    /\ last.op = "recordPurchase"
    /\ LET c == last.req.customerId
           n == Len(purchaseStore[c])
       IN  /\ n >= 2
           /\ purchaseStore[c][n].status = "active"
           /\ purchaseStore[c][n].planId = PlanOf(last.req.productId)
           /\ purchaseStore[c][n].oderId = last.req.orderId
           /\ \E i \in 1..(n-1) :
                /\ purchaseStore[c][i].planId = purchaseStore[c][n].planId
                /\ purchaseStore[c][i].status = "revoked"

\* C9: recordPurchase with a product id the resolver does not know creates
\* no record, leaves the whole ledger unchanged and does not throw.
C9_UnknownProductNoOp ==
    [][ ( /\ last'.op = "recordPurchase"
          /\ PlanOf(last'.req.productId) = NoVal )
        => /\ purchaseStore' = purchaseStore
           /\ ~last'.threw ]_vars

\* recordPurchase was called with an unknown product id on a ledger that
\* holds records, in a configuration that knows both plans.
C9_Witness ==
    /\ last.op = "recordPurchase"
    /\ PlanOf(last.req.productId) = NoVal
    /\ DOMAIN productToPlanMap = {"prod_a", "prod_b"}
    /\ TotalRecords(purchaseStore) > 0

\* C10: an authentic event whose type has no case in the router is
\* acknowledged with 200, calls no handler and leaves the ledger unchanged.
C10_UnknownTypeAcknowledged ==
    [][ ( /\ IsWebhook(last')
          /\ Authentic(last'.req)
          /\ last'.req.body.type \notin RoutedTypes )
        => /\ last'.status = 200
           /\ last'.handler = "none"
           /\ purchaseStore' = purchaseStore ]_vars

\* An authentic customer.created event was acknowledged while the ledger
\* held records.
C10_Witness ==
    /\ IsWebhook(last)
    /\ Authentic(last.req)
    /\ last.req.body.type = "customer.created"
    /\ last.status = 200
    /\ last.dispatched
    /\ TotalRecords(purchaseStore) > 0

\* `l` is the synchronous first part of a checkout request.
IsCheckoutBegin(l) == l.op = "checkout" /\ l.step = "begin"

\* C11: a checkout request for a plan the customer holds active is answered
\* with the already-purchased error, which differs from the invalid-plan
\* response, and polar.checkouts.create is not called for it.
C11_AlreadyPurchasedRejected ==
    [][ ( /\ IsCheckoutBegin(last')
          /\ IsValidPlan(last'.req.planId)
          /\ HasRecord(purchaseStore, CheckoutCustomer, last'.req.planId, "active") )
        => /\ last'.responded
           /\ last'.status = 400
           /\ last'.reply = AlreadyPurchasedError
           /\ last'.reply # CreateCheckout(purchaseStore, env, "enterprise").reply
           /\ ~last'.providerCalled
           /\ pending' = pending ]_vars

\* A checkout for an active plan was rejected while the customer's list also
\* held another record.
C11_Witness ==
    /\ IsCheckoutBegin(last)
    /\ last.reply = AlreadyPurchasedError
    /\ HasRecord(purchaseStore, CheckoutCustomer, last.req.planId, "active")
    /\ Len(purchaseStore[CheckoutCustomer]) = MaxRecords

\* C12: a checkout request whose plan is not pro or master (or is missing)
\* is answered with an error, without reading the ledger and without calling
\* the provider.
C12_InvalidPlanRejected ==
    [][ ( IsCheckoutBegin(last') /\ last'.req.planId \notin PlanIds )
        => /\ last'.responded
           /\ last'.status = 400
           /\ last'.reply = InvalidPlanError
           /\ ~last'.ledgerRead
           /\ ~last'.providerCalled
           /\ pending' = pending ]_vars

\* A request without a plan was rejected while the customer held an active
\* record and a session was being created.
C12_Witness ==
    /\ IsCheckoutBegin(last)
    /\ last.req.planId = NoVal
    /\ last.status = 400
    /\ \E pl \in PlanIds : HasRecord(purchaseStore, CheckoutCustomer, pl, "active")
    /\ Len(pending) > 0

\* The elements of a sequence.
Range(seq) == { seq[i] : i \in 1..Len(seq) }

\* C14: getPurchasedPlanIds(c), and the purchases query built on it, gives
\* exactly the plans with an active record of c, each once, and the empty
\* list for a customer without records; the query answers 200.
C14_PurchasedPlanIdsExact ==
    /\ \A c \in Customers :
         LET ids == GetPurchasedPlanIds(purchaseStore, c)
         IN  /\ Range(ids) = { pl \in PlanIds : HasRecord(purchaseStore, c, pl, "active") }
             /\ \A i, j \in 1..Len(ids) : ids[i] = ids[j] => i = j
             /\ purchaseStore[c] = <<>> => ids = <<>>
    /\ last.op = "purchases"
       => /\ last.status = 200
          /\ ~last.threw
          /\ last.reply.customerId = last.req.customerId
          /\ Range(last.reply.purchasedPlans) =
               { pl \in PlanIds :
                   HasRecord(purchaseStore, last.req.customerId, pl, "active") }
          /\ Len(last.reply.purchasedPlans) =
               Cardinality(Range(last.reply.purchasedPlans))

\* The query answered one plan for a customer who holds a revoked record
\* and an active one.
C14_Witness ==
    /\ last.op = "purchases"
    /\ Len(last.reply.purchasedPlans) = 1
    /\ \E pl \in PlanIds : HasRecord(purchaseStore, last.req.customerId, pl, "revoked")
    /\ Len(purchaseStore[last.req.customerId]) = MaxRecords

\* C15: hasPurchasedPlan(c, p) is true exactly when c has an active record
\* of p, which is exactly when p is among getPurchasedPlanIds(c); the
\* checkout gate that calls it rejects exactly in that case.
C15_HasPurchasedIffActive ==
    /\ \A c \in Customers, pl \in PlanIds :
         /\ HasPurchasedPlan(purchaseStore, c, pl)
              <=> HasRecord(purchaseStore, c, pl, "active")
         /\ HasPurchasedPlan(purchaseStore, c, pl)
              <=> pl \in Range(GetPurchasedPlanIds(purchaseStore, c))
    /\ ( IsCheckoutBegin(last) /\ IsValidPlan(last.req.planId) )
       => ( last.reply = AlreadyPurchasedError
            <=> HasRecord(purchaseStore, CheckoutCustomer, last.req.planId, "active") )

\* A checkout passed the gate for a plan of which the customer holds only a
\* revoked record.
C15_Witness ==
    /\ IsCheckoutBegin(last)
    /\ IsValidPlan(last.req.planId)
    /\ last.reply # AlreadyPurchasedError
    /\ HasRecord(purchaseStore, CheckoutCustomer, last.req.planId, "revoked")
    /\ ~HasRecord(purchaseStore, CheckoutCustomer, last.req.planId, "active")

\* C16: revokePurchase(c, p) with no active record of p for c leaves the
\* ledger unchanged and does not throw; a second revokePurchase directly
\* after the first changes nothing.
C16_RevokeWithoutActiveNoOp ==
    [][ /\ ( /\ last'.op = "revokePurchase"
             /\ ~HasRecord(purchaseStore, last'.req.customerId,
                           last'.req.planId, "active") )
           => ( purchaseStore' = purchaseStore /\ ~last'.threw )
        /\ ( /\ last.op = "revokePurchase"
             /\ last'.op = "revokePurchase"
             /\ last'.req = last.req )
           => purchaseStore' = purchaseStore ]_vars

\* revokePurchase was called for a plan the customer never bought, on a
\* ledger that holds records.
C16_Witness ==
    /\ last.op = "revokePurchase"
    /\ \A i \in 1..Len(purchaseStore[last.req.customerId]) :
         purchaseStore[last.req.customerId][i].planId # last.req.planId
    /\ ~last.threw
    /\ TotalRecords(purchaseStore) = MaxRecords

\* C17: with the secret configured, a delivery is acknowledged with 200
\* exactly when it passes verification and parsing; an activation for an
\* unknown product or for a plan already active is acknowledged like any
\* other.
C17_AuthenticAlwaysAcknowledged ==
    [][ ( IsWebhook(last') /\ env.POLAR_WEBHOOK_SECRET # NoVal )
        => /\ Authentic(last'.req) => ( last'.status = 200 /\ last'.reply = "received" )
           /\ ~Authentic(last'.req) => last'.status \in {400, 401} ]_vars

\* An authentic activation for a product the resolver does not know was
\* acknowledged.
C17_Witness ==
    /\ IsWebhook(last)
    /\ Authentic(last.req)
    /\ last.req.body.type = "subscription.active"
    /\ PlanOf(last.req.body.data.productId) = NoVal
    /\ last.status = 200
    /\ TotalRecords(purchaseStore) > 0

\* The delivery is fresh and signed by the provider over the body received,
\* and the body does not parse into an event.
VerifiedUnparseable(req) ==
    /\ env.POLAR_WEBHOOK_SECRET # NoVal
    /\ req.signature = Sign(req.body, env.POLAR_WEBHOOK_SECRET)
    /\ req.age <= WEBHOOK_TOLERANCE_IN_SECONDS
    /\ Parse(req.body) \notin Events

\* C18: a delivery that verifies but does not parse is answered 400, which
\* is not the status the same delivery gets without its signature, and is
\* not dispatched.
C18_MalformedRejectedDistinctly ==
    [][ ( IsWebhook(last') /\ VerifiedUnparseable(last'.req) )
        => /\ last'.status = 400
           /\ last'.status #
                HandleWebhook(purchaseStore, productToPlanMap, env,
                              [last'.req EXCEPT !.signature = NoSignature]).status
           /\ ~last'.dispatched
           /\ last'.handler = "none"
           /\ purchaseStore' = purchaseStore ]_vars

\* A verified, unparseable body was rejected with 400.
C18_Witness ==
    /\ IsWebhook(last)
    /\ VerifiedUnparseable(last.req)
    /\ last.validated
    /\ last.status = 400

\* C19: with the secret configured, a delivery whose timestamp is older than
\* the freshness window is answered 401 and not dispatched, also when its
\* signature is the right one for its body.
C19_StaleRejected ==
    [][ ( /\ IsWebhook(last')
          /\ env.POLAR_WEBHOOK_SECRET # NoVal
          /\ last'.req.age > WEBHOOK_TOLERANCE_IN_SECONDS )
        => /\ last'.status = 401
           /\ ~last'.dispatched
           /\ last'.handler = "none"
           /\ purchaseStore' = purchaseStore ]_vars

\* A stale activation with the right signature was rejected.
C19_Witness ==
    /\ IsWebhook(last)
    /\ env.POLAR_WEBHOOK_SECRET # NoVal
    /\ last.req.age > WEBHOOK_TOLERANCE_IN_SECONDS
    /\ last.req.signature = Sign(last.req.body, env.POLAR_WEBHOOK_SECRET)
    /\ last.req.body.type = "subscription.active"
    /\ last.status = 401

\* The body the signature of a delivery was computed over.
SignedBody(req) == req.signature[3]

\* The secret the signature of a delivery was computed with.
SigningSecret(req) == req.signature[2]

\* C20: with the secret configured, a fresh delivery signed with that secret
\* over exactly the bytes received passes authentication, and a delivery
\* whose body is one byte away from the bytes that were signed is answered
\* 401 and not dispatched.
C20_SignatureBindsExactBytes ==
    [][ ( IsWebhook(last') /\ env.POLAR_WEBHOOK_SECRET # NoVal )
        => /\ ( /\ SigningSecret(last'.req) = env.POLAR_WEBHOOK_SECRET
                /\ SignedBody(last'.req) = last'.req.body
                /\ last'.req.age <= WEBHOOK_TOLERANCE_IN_SECONDS )
              => ( last'.status # 401 /\
                   ( Parse(last'.req.body) \in Events => last'.dispatched ) )
           /\ OneByteApart(SignedBody(last'.req), last'.req.body)
              => ( last'.status = 401 /\ ~last'.dispatched /\
                   purchaseStore' = purchaseStore ) ]_vars

\* A delivery signed with the configured secret whose whitespace alone was
\* changed in transit was rejected.
C20_Witness ==
    /\ IsWebhook(last)
    /\ SigningSecret(last.req) = env.POLAR_WEBHOOK_SECRET
    /\ last.req.age <= WEBHOOK_TOLERANCE_IN_SECONDS
    /\ OneByteApart(SignedBody(last.req), last.req.body)
    /\ Parse(SignedBody(last.req)) = Parse(last.req.body)
    /\ Parse(last.req.body) \in Events
    /\ last.status = 401

\* `last` is a statement of a request in flight.
IsStmt(l) == l.op = "stmt"

\* A record task has pushed its record and not yet stored the array.
MidMutation(t) == tasks[t].kind = "record" /\ tasks[t].at = "set"

\* C13: whatever the order in which concurrent requests for a customer are
\* served, recordPurchase pushes only while the test it made still holds of
\* the ledger, no (customer, plan) pair gets two active records, and
\* getPurchasedPlanIds returns the active plans of the ledger at a moment
\* when no recordPurchase stands between its push and its set.
C13_CheckThenAppendAtomic ==
    [][ IsStmt(last')
        => /\ last'.stmt = "push"
              => ~HasPurchasedPlan(purchaseStore, last'.customerId, last'.planId)
           /\ \A c \in Customers, pl \in PlanIds :
                 ActiveCount(purchaseStore', c, pl) <= 1
           /\ last'.stmt = "readFilter"
              => /\ last'.result = GetPurchasedPlanIds(purchaseStore', last'.customerId)
                 /\ \A t \in Tasks : ~MidMutation(t)
           /\ last'.stmt \in {"readGet", "readFilter", "getList", "some"}
              => \A t \in Tasks : t # last'.task => ~MidMutation(t) ]_vars

\* One activation stands between its push and its set while another
\* activation of the same product and a read for the same customer are in
\* flight.
C13_Witness ==
    /\ IsStmt(last)
    /\ last.stmt = "push"
    /\ running = last.task
    /\ MidMutation(last.task)
    /\ \E u \in Tasks \ {last.task} :
          /\ tasks[u].kind = "record"
          /\ tasks[u].at = "arrived"
          /\ tasks[u].customerId = last.customerId
          /\ tasks[u].productId = last.productId
    /\ \E v \in Tasks \ {last.task} :
          /\ tasks[v].kind = "read"
          /\ tasks[v].at = "arrived"
          /\ tasks[v].customerId = last.customerId

\* Two records that agree on every field but, possibly, the status.
SameButStatus(r1, r2) == [r1 EXCEPT !.status = r2.status] = r2

\* Every list of the new ledger extends the list of the old one, record by
\* record, with nothing but statuses changed.
AppendOnly(old, new) ==
    \A c \in Customers :
        /\ Len(new[c]) >= Len(old[c])
        /\ \A i \in 1..Len(old[c]) : SameButStatus(old[c][i], new[c][i])

\* C21: every step leaves each customer's records in place and in order,
\* adds records at the end only, and changes no field of an existing record
\* but its status.
C21_LedgerAppendOnly ==
    [][ AppendOnly(purchaseStore, purchaseStore') ]_vars

\* A revocation changed the status of a customer's first record and left a
\* later record behind it.
C21_Witness ==
    /\ last.op = "revokePurchase"
    /\ \E c \in Customers :
          /\ last.req.customerId = c
          /\ Len(purchaseStore[c]) >= 2
          /\ purchaseStore[c][1].planId = last.req.planId
          /\ purchaseStore[c][1].status = "revoked"
          /\ purchaseStore[c][2].status = "active"

\* C27: a new record starts active; a record that is revoked or canceled
\* keeps its status in every later step; an active record stays active or
\* becomes revoked in one step.
C27_StatusLifecycle ==
    [][ \A c \in Customers :
          /\ \A i \in 1..Len(purchaseStore[c]) :
                i <= Len(purchaseStore'[c]) =>
                   /\ purchaseStore[c][i].status \in {"revoked", "canceled"}
                      => purchaseStore'[c][i].status = purchaseStore[c][i].status
                   /\ purchaseStore[c][i].status = "active"
                      => purchaseStore'[c][i].status \in {"active", "revoked"}
          /\ \A i \in (Len(purchaseStore[c]) + 1)..Len(purchaseStore'[c]) :
                purchaseStore'[c][i].status = "active" ]_vars

\* The plan of a revoked record was recorded again: the revoked record is
\* still revoked and a new active one follows it.
C27_Witness ==
    /\ last.op = "recordPurchase"
    /\ \E c \in Customers :
          /\ last.req.customerId = c
          /\ Len(purchaseStore[c]) >= 2
          /\ purchaseStore[c][1].status = "revoked"
          /\ purchaseStore[c][2].status = "active"
          /\ purchaseStore[c][2].planId = purchaseStore[c][1].planId

\* Positions of a customer's list where the two ledgers differ.
Changed(old, new, c) ==
    { i \in 1..Len(new[c]) : i > Len(old[c]) \/ old[c][i] # new[c][i] }

\* C29: recordPurchase and revokePurchase leave the lists of the other
\* customers as they were and touch no record of another plan;
\* recordPurchase adds at most one record and changes none, revokePurchase
\* adds none and changes the status of the one active record of the plan.
C29_FrameOfRecordAndRevoke ==
    [][ ( last'.op \in {"recordPurchase", "revokePurchase"} )
        => LET c == last'.req.customerId
               pl == IF last'.op = "recordPurchase"
                     THEN MapGet(productToPlanMap, last'.req.productId)
                     ELSE last'.req.planId
           IN  /\ \A d \in Customers \ {c} : purchaseStore'[d] = purchaseStore[d]
               /\ Len(purchaseStore'[c]) >= Len(purchaseStore[c])
               /\ \A i \in Changed(purchaseStore, purchaseStore', c) :
                     purchaseStore'[c][i].planId = pl
               /\ Cardinality(Changed(purchaseStore, purchaseStore', c)) <= 1
               /\ last'.op = "recordPurchase"
                  => /\ Len(purchaseStore'[c]) <= Len(purchaseStore[c]) + 1
                     /\ SubSeq(purchaseStore'[c], 1, Len(purchaseStore[c]))
                           = purchaseStore[c]
               /\ last'.op = "revokePurchase"
                  => /\ Len(purchaseStore'[c]) = Len(purchaseStore[c])
                     /\ HasPurchasedPlan(purchaseStore, c, pl)
                        => /\ Cardinality(Changed(purchaseStore, purchaseStore', c)) = 1
                           /\ ~HasPurchasedPlan(purchaseStore', c, pl) ]_vars

\* One plan of a customer was revoked while the customer held another
\* active plan.
C29_Witness ==
    /\ last.op = "revokePurchase"
    /\ \E c \in Customers, pl \in PlanIds :
          /\ last.req.customerId = c
          /\ last.req.planId # pl
          /\ HasRecord(purchaseStore, c, last.req.planId, "revoked")
          /\ HasPurchasedPlan(purchaseStore, c, pl)

\* C22: once the endpoint has accepted an authentic order.paid event for
\* customer c whose product maps to plan p, c holds an active record of p,
\* exactly one, as after an activation.
C22_OrderPaidGrantsAccess ==
    ( /\ IsWebhook(last)
      /\ last.status = 200
      /\ last.req.body.type = "order.paid"
      /\ PlanOf(last.req.body.data.productId) # NoVal )
    => LET c == last.req.body.data.customerId
           p == PlanOf(last.req.body.data.productId)
       IN  /\ HasPurchasedPlan(purchaseStore, c, p)
           /\ ActiveCount(purchaseStore, c, p) = 1

\* C28: when createCheckout answers with the redirect url, the plan is not
\* active for the customer, whatever was recorded while the provider call
\* was pending.
C28_NoUrlForActivePlan ==
    ( /\ last.op = "checkout"
      /\ last.step = "complete"
      /\ last.status = 200 )
    => ~HasPurchasedPlan(purchaseStore, CheckoutCustomer, last.req.planId)

\* C25: for every plan whose product id is configured, the product id
\* checkout uses for the plan resolves to that plan again.
C25_ProductPlanOneToOne ==
    pc = "serving"
    => \A p \in PlanIds :
          GetProductId(env, p) # NoVal
          => MapGet(productToPlanMap, GetProductId(env, p)) = p

\* C30: onSubscriptionActive leaves the ledger as it was when productId or
\* subscriptionId is undefined or empty, and otherwise leaves it as
\* recordPurchase(customerId, productId, subscriptionId) does.
C30_ActiveRecordsOnlyWithBothIds ==
    [][ last'.op = "onSubscriptionActive"
        => IF \/ last'.req.productId \in {NoVal, ""}
              \/ last'.req.subscriptionId \in {NoVal, ""}
           THEN purchaseStore' = purchaseStore
           ELSE purchaseStore' =
                   RecordPurchase(purchaseStore, productToPlanMap,
                                  last'.req.customerId, last'.req.productId,
                                  last'.req.subscriptionId).store ]_vars

\* onSubscriptionActive was called with both ids and the customer holds the
\* record it made, with the subscription id as order id.
C30_Witness ==
    /\ last.op = "onSubscriptionActive"
    /\ last.req.productId = "prod_a"
    /\ last.req.subscriptionId = "o1"
    /\ Len(purchaseStore[last.req.customerId]) = 1
    /\ purchaseStore[last.req.customerId][1].oderId = "o1"
    /\ purchaseStore[last.req.customerId][1].status = "active"
    /\ \A c \in Customers \ {last.req.customerId} : purchaseStore[c] = <<>>

\* C23: once the server is up the product-to-plan mapping is the same after
\* every step: initProductPlanMapping called again, a ledger call, a
\* webhook delivery, a checkout, a query.
C23_MappingImmutable ==
    [][ pc = "serving" => productToPlanMap' = productToPlanMap ]_vars

\* initProductPlanMapping was called again on a mapping that holds both
\* plans, with records in the ledger.
C23_Witness ==
    /\ last.op = "initProductPlanMapping"
    /\ MapGet(productToPlanMap, "prod_a") = "pro"
    /\ MapGet(productToPlanMap, "prod_b") = "master"
    /\ TotalRecords(purchaseStore) > 0

\* `last` is a request to one of the routes that use the mapping or the
\* ledger.
IsRequest(l) == l.op \in {"webhook", "checkout", "purchases"}

\* C24: every webhook, checkout or purchases request is handled by a server
\* whose mapping is the one initProductPlanMapping builds from the
\* configuration.
C24_InitializedBeforeServing ==
    [][ IsRequest(last')
        => /\ pc = "serving"
           /\ productToPlanMap = InitProductPlanMapping(EmptyMap, env) ]_vars

\* An authentic delivery was dispatched right after startup, with both
\* plans in the mapping.
C24_Witness ==
    /\ IsWebhook(last)
    /\ last.dispatched
    /\ MapGet(productToPlanMap, "prod_a") = "pro"
    /\ MapGet(productToPlanMap, "prod_b") = "master"
    /\ TotalRecords(purchaseStore) = 0
    /\ pending = <<>>

\* `last` is a request to a route of the server.
IsHttp(l) == l.op \in {"webhook", "checkout", "purchases", "health"}

\* C26: a request to a route of the server changes the ledger only if it is
\* a webhook delivery that validateEvent accepted; a checkout, a purchases
\* query, a health check and a rejected delivery leave the ledger as it was.
C26_OnlyVerifiedWebhooksWrite ==
    [][ IsHttp(last')
        => /\ ( last'.op \in {"checkout", "purchases", "health"}
                \/ ( IsWebhook(last') /\ ~last'.dispatched ) )
              => purchaseStore' = purchaseStore
           /\ purchaseStore' # purchaseStore
              => ( IsWebhook(last') /\ last'.validated /\ last'.dispatched ) ]_vars

\* A delivery with a bad signature that names an activation of a known
\* product for the checkout customer was rejected, and the customer holds
\* no active record of the plan.
C26_Witness ==
    /\ IsWebhook(last)
    /\ last.status = 401
    /\ last.req.body.type = "subscription.active"
    /\ last.req.body.data.customerId = CheckoutCustomer
    /\ PlanOf(last.req.body.data.productId) # NoVal
    /\ ~HasPurchasedPlan(purchaseStore, CheckoutCustomer,
                         PlanOf(last.req.body.data.productId))
    /\ TotalRecords(purchaseStore) > 0

====
